---- MODULE Spec2Model ----
(***************************************************************************)
(* cargo-crusader: the concurrent dual-build regression engine of          *)
(* src/main.rs.  The main thread reads the configuration, discovers the    *)
(* reverse dependencies, dispatches one unit of work per reverse           *)
(* dependency onto a thread pool and receives the verdicts through one     *)
(* channel per unit.  A unit of work resolves the version, fetches the     *)
(* crate into the on-disk cache, builds it against the published release   *)
(* and against the work-in-progress source, and classifies the outcome.    *)
(***************************************************************************)
EXTENDS Naturals, Sequences, FiniteSets

(* ------------------------------ bounds -------------------------------- *)

\* longest list of reverse dependencies the registry reports
MaxDeps == 2

\* values of num_cpus::get(), the number of threads of the pool
Cpus == {1, 2}

\* names the registry can report as reverse dependencies
Names == {"foo", "bar"}

\* values of CRUSADER_MANIFEST (or the default "./Cargo.toml")
ManifestPaths == {"./Cargo.toml", "./crate.toml"}

(* ------------------------------ versions ------------------------------ *)

\* a version string of the registry, as semver sees it: valid is whether
\* Version::parse accepts it, pre the numeric pre-release identifiers
VStr(valid, major, minor, patch, pre) ==
    [valid |-> valid, major |-> major, minor |-> minor, patch |-> patch, pre |-> pre]

V(major, minor, patch) == VStr(TRUE, major, minor, patch, <<>>)

Bogus == VStr(FALSE, 0, 0, 0, <<>>)

\* Version::parse("0.0.0").unwrap()
ZeroVersion == V(0, 0, 0)

\* the version lists a GET /crates/{name} can carry
VersionLists ==
    { <<V(1, 0, 0), V(1, 2, 0), VStr(TRUE, 1, 1, 0, <<1>>)>>,
      <<Bogus>>,
      <<>> }

RECURSIVE SeqLess(_, _)
\* lexicographic order of two sequences of numbers, Vec's Ord
SeqLess(a, b) ==
    IF b = <<>> THEN FALSE
    ELSE IF a = <<>> THEN TRUE
    ELSE IF Head(a) # Head(b) THEN Head(a) < Head(b)
    ELSE SeqLess(Tail(a), Tail(b))

\* semver's Ord for Version: major, minor, patch, then a release is greater
\* than any of its pre-releases
VersionLess(a, b) ==
    IF a.major # b.major THEN a.major < b.major
    ELSE IF a.minor # b.minor THEN a.minor < b.minor
    ELSE IF a.patch # b.patch THEN a.patch < b.patch
    ELSE IF a.pre = <<>> THEN FALSE
    ELSE IF b.pre = <<>> THEN TRUE
    ELSE SeqLess(a.pre, b.pre)

\* filter_map(|r| Version::parse(&*r.num).ok()), as a set
Parsable(list) == {list[i] : i \in {j \in 1..Len(list) : list[j].valid}}

\* a mutant of ParsedVersions: the strings that do not parse are kept
ParsedVersionsUnfiltered(list) == list

\* filter_map(|r| Version::parse(&*r.num).ok()).collect::<Vec<_>>(): the
\* parsable versions, in the order of the list
ParsedVersions(list) == SelectSeq(list, LAMBDA r : r.valid)

RECURSIVE InsertSorted(_, _)
\* a sorted vector with v put behind the elements that are not greater
InsertSorted(sorted, v) ==
    IF sorted = <<>> THEN <<v>>
    ELSE IF VersionLess(v, Head(sorted)) THEN <<v>> \o sorted
    ELSE <<Head(sorted)>> \o InsertSorted(Tail(sorted), v)

RECURSIVE SortVersions(_)
\* versions.sort(): a stable sort by Version's Ord
SortVersions(versions) ==
    IF versions = <<>> THEN <<>>
    ELSE InsertSorted(SortVersions(SubSeq(versions, 1, Len(versions) - 1)),
                      versions[Len(versions)])

\* a mutant of Pop: the first element is taken
PopFront(versions) == versions[1]

\* versions.pop() of a vector that is not empty: its last element
Pop(versions) == versions[Len(versions)]

\* versions.sort(); versions.pop(): the last of the sorted parsable versions
LatestVersion(list) == Pop(SortVersions(ParsedVersions(list)))

\* the versions a resolution can yield
ResolvedVersions == {LatestVersion(l) : l \in {m \in VersionLists : Parsable(m) # {}}}

(* ------------------------------ values -------------------------------- *)

\* enum Error
ErrorKinds ==
    {"ManifestName", "SemverError", "TomlError", "IoError", "CurlError", "HttpError",
     "Utf8Error", "JsonDecode", "RecvError", "NoCrateVersions", "FromUtf8Error",
     "ProcessError"}

\* struct RevDep
RevDep(name, vers) == [name |-> name, vers |-> vers]

\* the units of work, numbered in dispatch order; unit t sends on channel t
Units == 1..MaxDeps

\* the files of the crate cache: ./.crusader/crate-cache/<name>/<name>-<vers>.crate
CrateFiles == {RevDep(n, v) : n \in Names, v \in ResolvedVersions}

\* struct TestResult with enum TestResultData; base and next are the success
\* flags of the CompileResults a verdict carries ("none" where it carries
\* none), err the Error of an Error verdict; unit is the unit of work (or,
\* for a verdict made by TestResultReceiver::recv, the channel) it comes from
TestResult(rev_dep, kind, base, next, err, unit) ==
    [rev_dep |-> rev_dep, kind |-> kind, base |-> base, next |-> next,
     err |-> err, unit |-> unit]

NoResult == TestResult(RevDep("", ZeroVersion), "none", "none", "none", "none", 0)

\* mpsc::channel() of one unit: st is "none" before the channel is made,
\* "empty" while the Sender lives and nothing was sent, "full" once the
\* TestResult msg was sent, "closed" when the Sender was dropped with
\* nothing sent, "taken" once the Receiver was consumed by recv
Channel(st, msg) == [st |-> st, msg |-> msg]

NoChannel == Channel("none", NoResult)

RECURSIVE SeqsUpTo(_, _)
\* the sequences over S of length at most n
SeqsUpTo(S, n) ==
    IF n = 0 THEN {<<>>}
    ELSE LET shorter == SeqsUpTo(S, n - 1)
         IN  shorter \cup {Append(s, x) : s \in {r \in shorter : Len(r) = n - 1}, x \in S}

\* the lists parse_rev_deps can return, up to a renaming of the packages:
\* nothing in the program depends on what a name is, so a list begins
\* with the first name
DepLists == {l \in SeqsUpTo(Names, MaxDeps) : l = <<>> \/ l[1] = "foo"}

\* the crate cache of a first run: no file yet
EmptyCache == [f \in CrateFiles |-> "absent"]

(* ------------------------------ state --------------------------------- *)

VARIABLES
    mpc,          \* where the main thread is in run()
    config,       \* Config, once get_config returned it
    run_err,      \* the Err run() returned, "none" otherwise
    rev_deps,     \* the list get_rev_deps returned
    result_rxs,   \* run(): the TestResultReceivers, in dispatch order
    cur,          \* run(): the TestResult just received, not yet reported
    results,      \* run(): the TestResults collected so far
    notes,        \* the lines report_quick_result printed
    pool,         \* run(): the number of threads of the ThreadPool
    lock,         \* status_lock's LOCK: "free", or held by "main" or a "worker"
    queue,        \* the pool's queue of jobs not yet started
    pc,           \* where each unit of work is
    job,          \* the rev_dep each job's closure captured
    rd,           \* run_test_local: the resolved RevDep
    krate,        \* compile_with_custom_dep: "base" or "next" override
    base_result,  \* run_test_local: success flag of base_result
    res,          \* the TestResult run_test_local returned
    chan,         \* each unit's channel of TestResults
    cache,        \* content of each file of the crate cache
    tmpdirs,      \* the scratch directories on disk, as <<unit, krate>>
    waiting,      \* the units that completed and whose result run() has not
                  \* collected yet, in the order they completed
    builds,       \* per running unit, its calls of compile_with_custom_dep
    fetches,      \* per running unit, its calls of get_crate_handle
    failure,      \* per running unit, the Err a step of it returned, or "none"
    answer,       \* per running unit, the registry's reply to GET /crates/{name}
    faulted,      \* whether the environment has produced its failure
    arg,          \* the argument of a function called on its own
    ret           \* what that call returned

vars ==
    <<mpc, config, run_err, rev_deps, result_rxs, cur, results, notes, pool, lock,
      queue, pc, job, rd, krate, base_result, res, chan, cache, tmpdirs, waiting, builds,
      fetches, failure, answer, faulted, arg, ret>>

\* no reply of the registry yet
NoReply == [err |-> "none", versions |-> <<>>, got |-> FALSE]

\* no call of a function on its own
NoCall == [fn |-> "none"]

\* the program's state as main() calls run()
BeforeRun ==
    /\ mpc = "config"
    /\ config = [manifest_path |-> "", crate_name |-> ""]
    /\ run_err = "none"
    /\ rev_deps = <<>>
    /\ result_rxs = <<>>
    /\ cur = NoResult
    /\ results = <<>>
    /\ notes = <<>>
    /\ pool = 0
    /\ lock = "free"
    /\ queue = <<>>
    /\ pc = [t \in Units |-> "none"]
    /\ job = [t \in Units |-> ""]
    /\ rd = [t \in Units |-> RevDep("", ZeroVersion)]
    /\ krate = [t \in Units |-> "none"]
    /\ base_result = [t \in Units |-> "none"]
    /\ res = [t \in Units |-> NoResult]
    /\ chan = [t \in Units |-> NoChannel]
    /\ cache = EmptyCache
    /\ tmpdirs = {}
    /\ waiting = <<>>
    /\ builds = [t \in Units |-> <<>>]
    /\ fetches = [t \in Units |-> <<>>]
    /\ failure = [t \in Units |-> "none"]
    /\ answer = [t \in Units |-> NoReply]
    /\ faulted = FALSE

Init ==
    /\ BeforeRun
    /\ arg = NoCall
    /\ ret = NoCall

(* --------------------------- the main thread -------------------------- *)

\* a mutant of GuardDropped: the lock stays held
GuardKept(l) == l

\* Drop of the MutexGuard in _guard, as status_lock returns or unwinds
GuardDropped(l) == "free"

\* assert!(override_path.ends_with("Cargo.toml"))
EndsWithCargoToml(path) == path = "./Cargo.toml"

\* get_config, get_crate_name, load_string: the manifest cannot be read or
\* parsed, or has no package name, and run() returns the error; or the
\* Config is built from the manifest path
GetConfig ==
    /\ mpc = "config"
    /\ \/ \E e \in {"IoError", "TomlError", "ManifestName"} :
            /\ run_err' = e
            /\ mpc' = "failed"
            /\ UNCHANGED config
       \/ \E path \in ManifestPaths :
            /\ config' = [manifest_path |-> path, crate_name |-> "lib"]
            /\ mpc' = "discover"
            /\ UNCHANGED run_err
    /\ UNCHANGED <<pool, rev_deps, result_rxs, cur, results, notes, lock, queue, pc, job, rd,
                   krate, base_result, res, chan, cache, tmpdirs, waiting, builds,
                   fetches, failure, faulted>>
    /\ UNCHANGED <<answer, arg, ret>>

\* a mutant of AfterDispatch: the for loop ends after the first job, and the
\* other reverse dependencies are abandoned
AfterDispatchFirst(n) == "recv"

\* where run() goes once n receivers are pushed: the for loop ends with the
\* last rev_dep, and total = result_rxs.len()
AfterDispatch(n) == IF n = Len(rev_deps) THEN "recv" ELSE "dispatch"

\* a mutant of GetRevDeps: the error of the request or the decoding is
\* recorded, and run() goes on with a list of names all the same
GetRevDepsUnchecked ==
    /\ mpc = "discover"
    /\ lock = "free"
    /\ \E e \in {"none", "CurlError", "HttpError", "FromUtf8Error", "JsonDecode"},
          deps \in DepLists, n \in Cpus :
            /\ run_err' = e
            /\ rev_deps' = deps
            /\ pool' = n
            /\ mpc' = IF deps = <<>> THEN "recv" ELSE "dispatch"
    /\ UNCHANGED <<config, result_rxs, cur, results, notes, lock, queue, pc, job, rd,
                   krate, base_result, res, chan, cache, tmpdirs, waiting, builds,
                   fetches, failure, faulted>>
    /\ UNCHANGED <<answer, arg, ret>>

\* get_rev_deps: both status lines are printed under the lock, which no
\* other thread can hold yet; the request or the decoding fails and run()
\* returns the error, or the list of names is returned, and run() makes
\* the pool of num_cpus::get() threads
GetRevDeps ==
    /\ mpc = "discover"
    /\ lock = "free"
    /\ \/ \E e \in {"CurlError", "HttpError", "FromUtf8Error", "JsonDecode"} :
            /\ run_err' = e
            /\ mpc' = "failed"
            /\ UNCHANGED <<rev_deps, pool>>
       \/ \E deps \in DepLists, n \in Cpus :
            /\ rev_deps' = deps
            /\ pool' = n
            /\ mpc' = IF deps = <<>> THEN "recv" ELSE "dispatch"
            /\ UNCHANGED run_err
    /\ UNCHANGED <<config, result_rxs, cur, results, notes, lock, queue, pc, job, rd,
                   krate, base_result, res, chan, cache, tmpdirs, waiting, builds,
                   fetches, failure, faulted>>
    /\ UNCHANGED <<answer, arg, ret>>

\* a mutant of PushReceiver: the receiver goes to the front of the vector
PushReceiverFront(rxs, r) == <<r>> \o rxs

\* result_rxs.push(result)
PushReceiver(rxs, r) == Append(rxs, r)

\* one turn of the for loop of run(): run_test makes the channel of the
\* unit, hands the job (config, rev_dep, result_tx) to the pool and returns
\* the TestResultReceiver, which run() pushes
RunTest ==
    /\ mpc = "dispatch"
    /\ Len(result_rxs) < Len(rev_deps)
    /\ LET t == Len(result_rxs) + 1
           rev_dep == rev_deps[t]
       IN  /\ chan' = [chan EXCEPT ![t] = Channel("empty", NoResult)]
           /\ job' = [job EXCEPT ![t] = rev_dep]
           /\ queue' = Append(queue, t)
           /\ pc' = [pc EXCEPT ![t] = "queued"]
           /\ result_rxs' = PushReceiver(result_rxs, [rev_dep |-> rev_dep, rx |-> t])
           /\ mpc' = AfterDispatch(t)
    /\ UNCHANGED <<pool, config, run_err, rev_deps, cur, results, notes, lock, rd, krate,
                   base_result, res, cache, tmpdirs, waiting, builds, fetches, failure, faulted>>
    /\ UNCHANGED <<answer, arg, ret>>

\* a mutant of RecvIndex: the aggregator takes a result that is ready first
RecvIndexReady ==
    LET ready == {i \in 1..Len(result_rxs) : chan[result_rxs[i].rx].st \in {"full", "closed"}}
    IN  IF ready = {} THEN Len(results) + 1
        ELSE CHOOSE i \in ready : \A j \in ready : i >= j

\* result_rxs.into_iter().enumerate(): the next receiver, i + 1
RecvIndex == Len(results) + 1

\* a mutant of RecvReturns: the aggregator does not wait (try_recv)
RecvReturnsAtOnce(c) == TRUE

\* rx.recv() blocks until there is a message or the Sender is dropped
RecvReturns(c) == c.st \in {"full", "closed"}

\* the Receiver of the channel is not dropped: TestResultReceiver::recv
\* takes self, and drops it with its rx when it returns
ReceiverAlive(c) == c.st \in {"empty", "full", "closed"}

\* a mutant of RecvResult: the Error verdict names no package
RecvResultNameless(receiver) ==
    LET c == chan[receiver.rx]
    IN  IF c.st = "full" THEN c.msg
        ELSE TestResult(RevDep("", ZeroVersion), "Error", "none", "none", "RecvError",
                        receiver.rx)

\* TestResultReceiver::recv, once rx.recv() returns: the message, or an
\* Error verdict for the receiver's rev_dep at version 0.0.0
RecvResult(receiver) ==
    LET c == chan[receiver.rx]
    IN  IF c.st = "full" THEN c.msg
        ELSE TestResult(RevDep(receiver.rev_dep, ZeroVersion), "Error", "none", "none",
                        "RecvError", receiver.rx)

\* r.recv() in the closure of run(): blocks until the unit's message is in
\* the channel or its Sender is dropped
MainRecv ==
    /\ mpc = "recv"
    /\ Len(results) < Len(result_rxs)
    /\ LET receiver == result_rxs[RecvIndex]
       IN  /\ RecvReturns(chan[receiver.rx])
           /\ cur' = RecvResult(receiver)
           /\ chan' = [chan EXCEPT ![receiver.rx] = Channel("taken", NoResult)]
    /\ mpc' = "report"
    /\ UNCHANGED <<pool, config, run_err, rev_deps, result_rxs, results, notes, lock, queue, pc,
                   job, rd, krate, base_result, res, cache, tmpdirs, waiting, builds,
                   fetches, failure, faulted>>
    /\ UNCHANGED <<answer, arg, ret>>

\* TestResult::quick_str
QuickStr(r) ==
    CASE r.kind = "Broken" -> "broken"
      [] r.kind = "Regressed" -> "regressed"
      [] r.kind = "Pass" -> "pass"
      [] r.kind = "Error" -> "error"

\* a mutant of QuickLine: the counter starts at 0
QuickLineZeroBased(current_num, total, result) ==
    [current_num |-> current_num - 1, total |-> total, name |-> result.rev_dep.name,
     vers |-> result.rev_dep.vers, quick |-> QuickStr(result), unit |-> result.unit]

\* the line report_quick_result(current_num, total, result) prints
QuickLine(current_num, total, result) ==
    [current_num |-> current_num, total |-> total, name |-> result.rev_dep.name,
     vers |-> result.rev_dep.vers, quick |-> QuickStr(result), unit |-> result.unit]

\* report_quick_result(i + 1, total, &r): LOCK.lock(), and the line is
\* printed under the guard
ReportLock ==
    /\ mpc = "report"
    /\ lock = "free"
    /\ lock' = "main"
    /\ notes' = Append(notes, QuickLine(Len(results) + 1, Len(result_rxs), cur))
    /\ mpc' = "report_cs"
    /\ UNCHANGED <<pool, config, run_err, rev_deps, result_rxs, cur, results, queue, pc,
                   job, rd, krate, base_result, res, chan, cache, tmpdirs, waiting,
                   builds, fetches, failure, faulted>>
    /\ UNCHANGED <<answer, arg, ret>>

\* report_quick_result drops the guard; the closure returns r, which
\* collect() pushes
Report ==
    /\ mpc = "report_cs"
    /\ results' = Append(results, cur)
    /\ waiting' = SelectSeq(waiting, LAMBDA u : u # cur.unit)
    /\ cur' = NoResult
    /\ lock' = GuardDropped(lock)
    /\ mpc' = "recv"
    /\ UNCHANGED <<pool, config, run_err, rev_deps, result_rxs, notes, queue, pc, job, rd,
                   krate, base_result, res, chan, cache, tmpdirs, builds, fetches,
                   failure, faulted>>
    /\ UNCHANGED <<answer, arg, ret>>

\* Ok(results)
Return ==
    /\ mpc = "recv"
    /\ Len(results) = Len(result_rxs)
    /\ mpc' = "done"
    /\ UNCHANGED <<pool, config, run_err, rev_deps, result_rxs, cur, results, notes, lock, queue,
                   pc, job, rd, krate, base_result, res, chan, cache, tmpdirs, waiting,
                   builds, fetches, failure, faulted>>
    /\ UNCHANGED <<answer, arg, ret>>

(* --------------------------- the thread pool -------------------------- *)

\* the positions of a unit of work that is running on a thread of the pool
RunningPcs ==
    {"status", "status_cs", "resolve", "fetch", "download", "create", "write", "scratch",
     "unpack", "build", "send"}

\* the units whose job a thread of the pool is executing
Running == {t \in Units : pc[t] \in RunningPcs}

\* a mutant of ThreadIdle: a job is started whatever the threads do
ThreadIdleAlways == TRUE

\* a thread of the pool is executing no job
ThreadIdle == Cardinality(Running) < pool

\* a thread of the pool that has no job takes the oldest job of the queue
\* and enters the closure: run_test_local begins with status(), which
\* waits for LOCK
StartJob(t) ==
    /\ pc[t] = "queued"
    /\ queue # <<>>
    /\ Head(queue) = t
    /\ ThreadIdle
    /\ queue' = Tail(queue)
    /\ pc' = [pc EXCEPT ![t] = "status"]
    /\ UNCHANGED <<mpc, config, run_err, rev_deps, result_rxs, cur, results, notes, pool, lock,
                   job, rd, krate, base_result, res, chan, cache, tmpdirs, waiting,
                   builds, fetches, failure, faulted>>
    /\ UNCHANGED <<answer, arg, ret>>

\* a mutant of SenderDropped: the channel stays open without its Sender
SenderLeaked(c) == c

\* the Sender of a channel is dropped with nothing sent
SenderDropped(c) == Channel("closed", NoResult)

\* the environment produces a failure, at most one in the units of work of
\* a run: a request, a file operation or a process returns an error
Fault ==
    /\ ~faulted
    /\ faulted' = TRUE

\* status(), status_lock: LOCK.lock()
StatusLock(t) ==
    /\ pc[t] = "status"
    /\ lock = "free"
    /\ lock' = "worker"
    /\ pc' = [pc EXCEPT ![t] = "status_cs"]
    /\ UNCHANGED <<mpc, config, run_err, rev_deps, result_rxs, cur, results, notes, pool, queue,
                   job, rd, krate, base_result, res, chan, cache, tmpdirs, waiting,
                   builds, fetches, failure, faulted>>
    /\ UNCHANGED <<answer, arg, ret>>

\* status(): the line "testing crate ..." is printed, status_lock returns
\* and the guard is dropped; or println! cannot write to stdout and panics,
\* and unwinding drops the guard and then the closure's result_tx
StatusUnlock(t) ==
    /\ pc[t] = "status_cs"
    /\ lock' = GuardDropped(lock)
    /\ \/ /\ pc' = [pc EXCEPT ![t] = "resolve"]
          /\ UNCHANGED <<chan, waiting, faulted>>
       \/ /\ Fault
          /\ chan' = [chan EXCEPT ![t] = SenderDropped(@)]
          /\ waiting' = Append(waiting, t)
          /\ pc' = [pc EXCEPT ![t] = "panicked"]
    /\ UNCHANGED <<mpc, config, run_err, rev_deps, result_rxs, cur, results, notes, pool, queue,
                   job, rd, krate, base_result, res, cache, tmpdirs, builds, fetches,
                   failure>>
    /\ UNCHANGED <<answer, arg, ret>>

(* --------------------------- run_test_local --------------------------- *)

\* Ok(RevDep) or Err(Error) of resolve_rev_dep_version
Resolved(ok, rev_dep, err) == [ok |-> ok, rev_dep |-> rev_dep, err |-> err]

\* what the registry can answer a GET /crates/{name}: a failure of
\* http_get_to_string or parse_crate, or the list of versions
RegistryReplies ==
    {[err |-> e, versions |-> <<>>] :
        e \in {"CurlError", "HttpError", "FromUtf8Error", "JsonDecode"}}
    \cup {[err |-> "none", versions |-> l] : l \in VersionLists}

\* resolve_rev_dep_version(name), given the registry's reply
ResolveRevDepVersion(name, reply) ==
    IF reply.err # "none" THEN Resolved(FALSE, RevDep(name, ZeroVersion), reply.err)
    ELSE IF ParsedVersions(reply.versions) = <<>>
         THEN Resolved(FALSE, RevDep(name, ZeroVersion), "NoCrateVersions")
         ELSE Resolved(TRUE, RevDep(name, LatestVersion(reply.versions)), "none")

\* a mutant of ErrorResult: an error is reported as a broken build
ErrorResultAsBroken(rev_dep, e, unit) == TestResult(rev_dep, "Broken", "failed", "none", "none", unit)

\* TestResult::error
ErrorResult(rev_dep, e, unit) == TestResult(rev_dep, "Error", "none", "none", e, unit)

\* TestResult::broken
BrokenResult(rev_dep, r, unit) == TestResult(rev_dep, "Broken", r, "none", "none", unit)

\* TestResult::regressed
RegressedResult(rev_dep, r1, r2, unit) == TestResult(rev_dep, "Regressed", r1, r2, "none", unit)

\* TestResult::pass
PassResult(rev_dep, r1, r2, unit) == TestResult(rev_dep, "Pass", r1, r2, "none", unit)

\* a call of compile_with_custom_dep, as builds records it: the override,
\* how the call ended, and whether it made a scratch directory
BuildCall(k, out, dir) == [krate |-> k, out |-> out, dir |-> dir]

\* a call of get_crate_handle, as fetches records it: the cache file, whether
\* it was found, the downloads made, whether the call truncated or wrote
\* the file, and how the call ended
FetchCall(file, hit, downloads, touched, out) ==
    [file |-> file, hit |-> hit, downloads |-> downloads, touched |-> touched, out |-> out]

\* s with its last element replaced by x
SetLast(s, x) == [s EXCEPT ![Len(s)] = x]

\* run_test_local: the version is resolved; an Err returns the Error
\* verdict for the name at version 0.0.0, an Ok goes on to
\* compile_with_custom_dep(&rev_dep, &config.base_override)
Resolve(t) ==
    /\ pc[t] = "resolve"
    /\ \E reply \in RegistryReplies :
         LET r == ResolveRevDepVersion(job[t], reply)
         IN  /\ IF reply.err # "none" THEN Fault ELSE UNCHANGED faulted
             /\ answer' = [answer EXCEPT ![t] =
                              [err |-> reply.err, versions |-> reply.versions, got |-> TRUE]]
             /\ IF r.ok
                THEN /\ rd' = [rd EXCEPT ![t] = r.rev_dep]
                     /\ krate' = [krate EXCEPT ![t] = "base"]
                     /\ builds' = [builds EXCEPT ![t] = Append(@, BuildCall("base", "pending", FALSE))]
                     /\ pc' = [pc EXCEPT ![t] = "fetch"]
                     /\ UNCHANGED <<res, failure>>
                ELSE /\ res' = [res EXCEPT ![t] = ErrorResult(r.rev_dep, r.err, t)]
                     /\ failure' = [failure EXCEPT ![t] = r.err]
                     /\ pc' = [pc EXCEPT ![t] = "send"]
                     /\ UNCHANGED <<rd, krate, builds>>
    /\ UNCHANGED <<mpc, config, run_err, rev_deps, result_rxs, cur, results, notes, pool, lock,
                   queue, job, base_result, chan, cache, tmpdirs, waiting, fetches>>
    /\ UNCHANGED <<arg, ret>>

\* Result<CompileResult, Error>: Ok with the success flag, or Err
CompileOk(success) == [ok |-> TRUE, success |-> success, err |-> "none"]

CompileErr(e) == [ok |-> FALSE, success |-> FALSE, err |-> e]

\* the success flag of a CompileResult, as verdicts and builds carry it
Flag(r) == IF r.success THEN "success" ELSE "failed"

\* a mutant of Failed: no build ever counts as failed
FailedNever(r) == FALSE

\* CompileResult::failed
Failed(r) == ~r.success

\* a mutant of NextVerdict: Regressed and Pass are swapped
NextVerdictSwapped(rev_dep, base, r, unit) ==
    IF ~r.ok THEN ErrorResult(rev_dep, r.err, unit)
    ELSE IF Failed(r) THEN PassResult(rev_dep, base, Flag(r), unit)
    ELSE RegressedResult(rev_dep, base, Flag(r), unit)

\* run_test_local from the return r of the build with next_override
NextVerdict(rev_dep, base, r, unit) ==
    IF ~r.ok THEN ErrorResult(rev_dep, r.err, unit)
    ELSE IF Failed(r) THEN RegressedResult(rev_dep, base, Flag(r), unit)
    ELSE PassResult(rev_dep, base, Flag(r), unit)

\* run_test_local from the return r of the build with base_override: the
\* verdict it returns, or NoResult when it goes on to the second build
BaseVerdict(rev_dep, r, unit) ==
    IF ~r.ok THEN ErrorResult(rev_dep, r.err, unit)
    ELSE IF Failed(r) THEN BrokenResult(rev_dep, Flag(r), unit)
    ELSE NoResult

\* a mutant of DropTempDir: the directory is kept
KeepTempDir(dirs, t, k) == dirs

\* Drop of TempDir: the scratch directory is removed
DropTempDir(dirs, t, k) == dirs \ {<<t, k>>}

\* compile_with_custom_dep returns r into run_test_local: temp_dir is
\* dropped, and run_test_local returns a verdict or starts the second build
Returns(t, r) ==
    LET out == IF r.ok THEN Flag(r) ELSE "error"
        done == SetLast(builds[t], [builds[t][Len(builds[t])] EXCEPT !.out = out])
        verdict == IF krate[t] = "base" THEN BaseVerdict(rd[t], r, t)
                   ELSE NextVerdict(rd[t], base_result[t], r, t)
    IN  /\ tmpdirs' = DropTempDir(tmpdirs, t, krate[t])
        /\ failure' = [failure EXCEPT ![t] = r.err]
        /\ IF verdict = NoResult
           THEN /\ base_result' = [base_result EXCEPT ![t] = Flag(r)]
                /\ krate' = [krate EXCEPT ![t] = "next"]
                /\ builds' = [builds EXCEPT ![t] = Append(done, BuildCall("next", "pending", FALSE))]
                /\ pc' = [pc EXCEPT ![t] = "fetch"]
                /\ UNCHANGED res
           ELSE /\ res' = [res EXCEPT ![t] = verdict]
                /\ builds' = [builds EXCEPT ![t] = done]
                /\ pc' = [pc EXCEPT ![t] = "send"]
                /\ UNCHANGED <<base_result, krate>>

(* ----------------------- compile_with_custom_dep ---------------------- *)

\* the last call of get_crate_handle of unit t, changed
FetchDone(t, downloads, touched, out) ==
    [fetches EXCEPT ![t] =
        SetLast(@, [@[Len(@)] EXCEPT !.downloads = downloads, !.touched = touched,
                                     !.out = out])]

\* a mutant of CrateFileExists: the cache file is never found
CrateFileNeverExists(file) == FALSE

\* File::open(&crate_file).is_ok()
CrateFileExists(file) == cache[file] # "absent"

\* get_crate_handle up to the test of crate_file_exists: create_dir_all
\* fails, or the file is there and the handle is returned, or it is not
\* and the crate is to be downloaded
Fetch(t) ==
    /\ pc[t] = "fetch"
    /\ \/ /\ Fault
          /\ fetches' = [fetches EXCEPT ![t] = Append(@, FetchCall(rd[t], FALSE, 0, FALSE, "err"))]
          /\ Returns(t, CompileErr("IoError"))
       \/ /\ CrateFileExists(rd[t])
          /\ fetches' = [fetches EXCEPT ![t] = Append(@, FetchCall(rd[t], TRUE, 0, FALSE, "ok"))]
          /\ pc' = [pc EXCEPT ![t] = "scratch"]
          /\ UNCHANGED <<krate, base_result, res, tmpdirs, builds, failure, faulted>>
       \/ /\ ~CrateFileExists(rd[t])
          /\ fetches' = [fetches EXCEPT ![t] = Append(@, FetchCall(rd[t], FALSE, 0, FALSE, "pending"))]
          /\ pc' = [pc EXCEPT ![t] = "download"]
          /\ UNCHANGED <<krate, base_result, res, tmpdirs, builds, failure, faulted>>
    /\ UNCHANGED <<mpc, config, run_err, rev_deps, result_rxs, cur, results, notes, pool, lock,
                   queue, job, rd, chan, cache, waiting>>
    /\ UNCHANGED <<answer, arg, ret>>

\* get_crate_handle: http_get_bytes(&url) of the download URL
Download(t) ==
    /\ pc[t] = "download"
    /\ \/ \E e \in {"CurlError", "HttpError"} :
            /\ Fault
            /\ fetches' = FetchDone(t, 1, FALSE, "err")
            /\ Returns(t, CompileErr(e))
       \/ /\ fetches' = FetchDone(t, 1, FALSE, "pending")
          /\ pc' = [pc EXCEPT ![t] = "create"]
          /\ UNCHANGED <<krate, base_result, res, tmpdirs, builds, failure, faulted>>
    /\ UNCHANGED <<mpc, config, run_err, rev_deps, result_rxs, cur, results, notes, pool, lock,
                   queue, job, rd, chan, cache, waiting>>
    /\ UNCHANGED <<answer, arg, ret>>

\* get_crate_handle: File::create(&crate_file), which truncates the file
Create(t) ==
    /\ pc[t] = "create"
    /\ \/ /\ Fault
          /\ fetches' = FetchDone(t, 1, FALSE, "err")
          /\ Returns(t, CompileErr("IoError"))
          /\ UNCHANGED cache
       \/ /\ cache' = [cache EXCEPT ![rd[t]] = "truncated"]
          /\ fetches' = FetchDone(t, 1, TRUE, "pending")
          /\ pc' = [pc EXCEPT ![t] = "write"]
          /\ UNCHANGED <<krate, base_result, res, tmpdirs, builds, failure, faulted>>
    /\ UNCHANGED <<mpc, config, run_err, rev_deps, result_rxs, cur, results, notes, pool, lock,
                   queue, job, rd, chan, waiting>>
    /\ UNCHANGED <<answer, arg, ret>>

\* get_crate_handle: file.write_all(&body) fails and leaves a part of the
\* body; or it succeeds, and file.flush() fails or the handle is returned
Write(t) ==
    /\ pc[t] = "write"
    /\ \/ /\ Fault
          /\ cache' = [cache EXCEPT ![rd[t]] = "partial"]
          /\ fetches' = FetchDone(t, 1, TRUE, "err")
          /\ Returns(t, CompileErr("IoError"))
       \/ /\ Fault
          /\ cache' = [cache EXCEPT ![rd[t]] = "complete"]
          /\ fetches' = FetchDone(t, 1, TRUE, "err")
          /\ Returns(t, CompileErr("IoError"))
       \/ /\ cache' = [cache EXCEPT ![rd[t]] = "complete"]
          /\ fetches' = FetchDone(t, 1, TRUE, "ok")
          /\ pc' = [pc EXCEPT ![t] = "scratch"]
          /\ UNCHANGED <<krate, base_result, res, tmpdirs, builds, failure, faulted>>
    /\ UNCHANGED <<mpc, config, run_err, rev_deps, result_rxs, cur, results, notes, pool, lock,
                   queue, job, rd, chan, waiting>>
    /\ UNCHANGED <<answer, arg, ret>>

\* TempDir::new("crusader") and fs::create_dir(source_dir): either fails
\* (and a temp_dir already made is dropped), or the scratch directory is
\* on disk
Scratch(t) ==
    /\ pc[t] = "scratch"
    /\ \/ /\ Fault
          /\ Returns(t, CompileErr("IoError"))
       \/ /\ tmpdirs' = tmpdirs \cup {<<t, krate[t]>>}
          /\ builds' = [builds EXCEPT ![t] = SetLast(@, [@[Len(@)] EXCEPT !.dir = TRUE])]
          /\ pc' = [pc EXCEPT ![t] = "unpack"]
          /\ UNCHANGED <<krate, base_result, res, failure, faulted>>
    /\ UNCHANGED <<mpc, config, run_err, rev_deps, result_rxs, cur, results, notes, pool, lock,
                   queue, job, rd, chan, cache, waiting, fetches>>
    /\ UNCHANGED <<answer, arg, ret>>

\* CrateHandle::unpack_source_to: tar cannot be run, or exits with a
\* failure for a reason of its own, or exits with a failure because the
\* file is not a complete archive, or succeeds
Unpack(t) ==
    /\ pc[t] = "unpack"
    /\ \/ \E e \in {"IoError", "ProcessError"} :
            /\ Fault
            /\ Returns(t, CompileErr(e))
       \/ /\ cache[rd[t]] # "complete"
          /\ Returns(t, CompileErr("ProcessError"))
          /\ UNCHANGED faulted
       \/ /\ cache[rd[t]] = "complete"
          /\ pc' = [pc EXCEPT ![t] = "build"]
          /\ UNCHANGED <<krate, base_result, res, tmpdirs, builds, failure, faulted>>
    /\ UNCHANGED <<mpc, config, run_err, rev_deps, result_rxs, cur, results, notes, pool, lock,
                   queue, job, rd, chan, cache, waiting, fetches>>
    /\ UNCHANGED <<answer, arg, ret>>

\* the closure of the job ends, by return or by unwinding: what it and
\* the calls it made held is dropped
ClosureEnds(t) ==
    /\ rd' = [rd EXCEPT ![t] = RevDep("", ZeroVersion)]
    /\ krate' = [krate EXCEPT ![t] = "none"]
    /\ base_result' = [base_result EXCEPT ![t] = "none"]
    /\ res' = [res EXCEPT ![t] = NoResult]
    /\ builds' = [builds EXCEPT ![t] = <<>>]
    /\ fetches' = [fetches EXCEPT ![t] = <<>>]
    /\ failure' = [failure EXCEPT ![t] = "none"]
    /\ answer' = [answer EXCEPT ![t] = NoReply]

\* the rest of compile_with_custom_dep.  With next_override,
\* emit_cargo_override_path asserts that the manifest path ends with
\* Cargo.toml: if not, the thread panics, and unwinding drops temp_dir and
\* then the closure's result_tx; otherwise writing .cargo/config can fail.
\* Then cargo build cannot be run, or its output is not UTF-8, or it
\* builds or fails to
Build(t) ==
    /\ pc[t] = "build"
    /\ IF krate[t] = "next" /\ ~EndsWithCargoToml(config.manifest_path)
       THEN /\ tmpdirs' = DropTempDir(tmpdirs, t, krate[t])
            /\ chan' = [chan EXCEPT ![t] = SenderDropped(@)]
            /\ waiting' = Append(waiting, t)
            /\ pc' = [pc EXCEPT ![t] = "panicked"]
            /\ ClosureEnds(t)
            /\ UNCHANGED faulted
       ELSE /\ \/ \E e \in {"IoError", "FromUtf8Error"} :
                    /\ Fault
                    /\ Returns(t, CompileErr(e))
               \/ \E success \in BOOLEAN :
                    /\ Returns(t, CompileOk(success))
                    /\ UNCHANGED faulted
            /\ UNCHANGED <<chan, waiting, rd, fetches, answer>>
    /\ UNCHANGED <<mpc, config, run_err, rev_deps, result_rxs, cur, results, notes, pool, lock,
                   queue, job, cache>>
    /\ UNCHANGED <<arg, ret>>

\* result_tx.send(res).unwrap(), after which the closure ends and drops
\* result_tx: send puts the verdict in the channel when the Receiver is
\* alive, and returns Err(SendError) when it is dropped, on which unwrap
\* panics
Send(t) ==
    /\ pc[t] = "send"
    /\ \/ /\ ReceiverAlive(chan[t])
          /\ chan' = [chan EXCEPT ![t] = Channel("full", res[t])]
          /\ pc' = [pc EXCEPT ![t] = "sent"]
       \/ /\ ~ReceiverAlive(chan[t])
          /\ UNCHANGED chan
          /\ pc' = [pc EXCEPT ![t] = "panicked"]
    /\ waiting' = Append(waiting, t)
    /\ ClosureEnds(t)
    /\ UNCHANGED <<mpc, config, run_err, rev_deps, result_rxs, cur, results, notes, pool, lock,
                   queue, job, cache, tmpdirs, faulted>>
    /\ UNCHANGED <<arg, ret>>

(* --------------------------- specification ---------------------------- *)

Next ==
    \/ GetConfig
    \/ GetRevDeps
    \/ RunTest
    \/ MainRecv
    \/ ReportLock
    \/ Report
    \/ Return
    \/ \E t \in Units :
         \/ StartJob(t)
         \/ StatusLock(t)
         \/ StatusUnlock(t)
         \/ Resolve(t)
         \/ Fetch(t)
         \/ Download(t)
         \/ Create(t)
         \/ Write(t)
         \/ Scratch(t)
         \/ Unpack(t)
         \/ Build(t)
         \/ Send(t)

Spec == Init /\ [][Next]_vars

(* ----------------------------- scheduling ----------------------------- *)

\* the steps of the main thread, which runs run()
MainThread ==
    GetConfig \/ GetRevDeps \/ RunTest \/ MainRecv \/ ReportLock \/ Report \/ Return

\* the steps of unit t: the pool starting its job, and the job's closure
Worker(t) ==
    \/ StartJob(t)
    \/ StatusLock(t)
    \/ StatusUnlock(t)
    \/ Resolve(t)
    \/ Fetch(t)
    \/ Download(t)
    \/ Create(t)
    \/ Write(t)
    \/ Scratch(t)
    \/ Unpack(t)
    \/ Build(t)
    \/ Send(t)

\* the program when every blocking external call returns and every thread
\* that can take a step is scheduled: a thread whose next step stays possible
\* takes it
FairSpec ==
    /\ Init
    /\ [][Next]_vars
    /\ WF_vars(MainThread)
    /\ \A t \in Units : WF_vars(Worker(t))

(* ------------------- functions called on their own -------------------- *)

\* the variables of run() and of its units of work
run_vars ==
    <<mpc, config, run_err, rev_deps, result_rxs, cur, results, notes, pool, lock,
      queue, pc, job, rd, krate, base_result, res, chan, cache, tmpdirs, waiting, builds,
      fetches, failure, answer, faulted>>

\* longest list of versions a GET /crates/{name} carries
MaxVersions == 3

\* the version strings of such a list: releases, pre-releases of one of
\* them and of a version of its own, and a string semver rejects
VersionStrings ==
    {V(0, 3, 1), V(1, 0, 0), V(1, 2, 0), VStr(TRUE, 1, 2, 0, <<1>>),
     VStr(TRUE, 1, 2, 0, <<1, 0>>), VStr(TRUE, 1, 3, 0, <<2>>), Bogus}

\* the calls resolve_rev_dep_version(name), with the registry's reply
ResolveArgs ==
    {[fn |-> "resolve_rev_dep_version", name |-> n, reply |-> r] :
        n \in Names,
        r \in {[err |-> e, versions |-> <<>>] :
                  e \in {"CurlError", "HttpError", "FromUtf8Error", "JsonDecode"}}
              \cup {[err |-> "none", versions |-> l] :
                       l \in SeqsUpTo(VersionStrings, MaxVersions)}}

ResolveInit ==
    /\ BeforeRun
    /\ arg \in ResolveArgs
    /\ ret = NoCall

\* resolve_rev_dep_version(name) returns
ResolveCall ==
    /\ arg.fn = "resolve_rev_dep_version"
    /\ ret = NoCall
    /\ ret' = ResolveRevDepVersion(arg.name, arg.reply)
    /\ UNCHANGED <<arg, run_vars>>

ResolveNext == ResolveCall

ResolveSpec == ResolveInit /\ [][ResolveNext]_vars

\* what http::handle().get(url).exec() returns: Err, or a response with
\* its code, whether it has a location header, the values of that header
\* and its body
Exec(ok, code, has_location, location, body) ==
    [ok |-> ok, code |-> code, has_location |-> has_location, location |-> location,
     body |-> body]

\* the codes of the responses
Codes == {200, 301, 302, 404}

\* what the request of the url given can return
FirstExecs ==
    {Exec(FALSE, 0, FALSE, <<>>, "")}
    \cup {Exec(TRUE, c, h, l, "first") :
            c \in Codes, h \in BOOLEAN, l \in {<<>>, <<"moved">>}}

\* what the request of the location can return
SecondExecs ==
    {Exec(FALSE, 0, FALSE, <<>>, "")}
    \cup {Exec(TRUE, c, h, <<"again">>, "second") : c \in Codes, h \in BOOLEAN}

\* Result<Vec<u8>, Error> of http_get_bytes, with the urls it requested
HttpResult(ok, body, err, urls) == [ok |-> ok, body |-> body, err |-> err, urls |-> urls]

\* a mutant of HasLocation: every response counts as having a location
HasLocationAlways(resp) == TRUE

\* if let Some(l) = resp.get_headers().get("location") { if l.len() > 0
HasLocation(resp) == resp.has_location /\ Len(resp.location) > 0

\* http_get_bytes(url), first and second being what the environment
\* returns to the first request and to a second one
HttpGetBytes(url, first, second) ==
    IF ~first.ok THEN HttpResult(FALSE, "", "CurlError", <<url>>)
    ELSE IF first.code = 302
         THEN IF HasLocation(first)
              THEN LET l == IF first.location = <<>> THEN "" ELSE first.location[1]
                   IN  IF ~second.ok
                       THEN HttpResult(FALSE, "", "CurlError", <<url, l>>)
                       ELSE IF second.code # 200
                            THEN HttpResult(FALSE, "", "HttpError", <<url, l>>)
                            ELSE HttpResult(TRUE, second.body, "none", <<url, l>>)
              ELSE HttpResult(FALSE, "", "HttpError", <<url>>)
         ELSE IF first.code # 200
              THEN HttpResult(FALSE, "", "HttpError", <<url>>)
              ELSE HttpResult(TRUE, first.body, "none", <<url>>)

\* the calls http_get_bytes(url), with what the environment returns
HttpArgs ==
    {[fn |-> "http_get_bytes", url |-> "url", first |-> f, second |-> s] :
        f \in FirstExecs, s \in SecondExecs}

HttpInit ==
    /\ BeforeRun
    /\ arg \in HttpArgs
    /\ ret = NoCall

\* http_get_bytes(url) returns
HttpCall ==
    /\ arg.fn = "http_get_bytes"
    /\ ret = NoCall
    /\ ret' = HttpGetBytes(arg.url, arg.first, arg.second)
    /\ UNCHANGED <<arg, run_vars>>

HttpNext == HttpCall

HttpSpec == HttpInit /\ [][HttpNext]_vars

(* ------------------------------ claims -------------------------------- *)

\* run() has returned Ok(results)
Done == mpc = "done"

\* the job of unit u has ended, by sending its verdict or by a panic
Ended(u) == pc[u] \in {"sent", "panicked"}

\* the position of the notification of unit u in notes, 0 if there is none
NoteIndex(u) ==
    IF \E k \in 1..Len(notes) : notes[k].unit = u
    THEN CHOOSE k \in 1..Len(notes) : notes[k].unit = u
    ELSE 0

\* the verdict TestResultReceiver::recv makes of a closed channel
IsRecvError(r, name) ==
    /\ r.kind = "Error"
    /\ r.err = "RecvError"
    /\ r.rev_dep = RevDep(name, ZeroVersion)

\* C1: every result collected by run() stands at the position of the unit
\* of work it comes from, which is the unit dispatched for the package at
\* that position of the discovery list: it is the verdict that unit sent,
\* or the RecvError verdict of that unit's channel if the unit panicked,
\* whatever the order in which the units completed.
C1_ResultsInDiscoveryOrder ==
    /\ \A t \in Units :
          /\ res[t] # NoResult => res[t].unit = t
          /\ chan[t].st = "full" => chan[t].msg.unit = t /\ pc[t] = "sent"
    /\ cur # NoResult => cur.unit = Len(results) + 1
    /\ \A i \in 1..Len(results) :
          /\ results[i].unit = i
          /\ job[i] = rev_deps[i]
          /\ Ended(i)
          /\ pc[i] = "panicked" <=> IsRecvError(results[i], rev_deps[i])

\* C1 witness: the aggregator has received the verdict of the first unit
\* from the first channel, for the first position, while the verdict of
\* the second unit, which completed before the first, is still in its
\* channel.
C1_Witness ==
    /\ mpc = "report"
    /\ cur.unit = 1
    /\ waiting = <<2, 1>>
    /\ chan[2].st = "full"

\* C2: when run() returns Ok, the results are as many as the discovered
\* names, and the i-th result carries the i-th discovered name, duplicates
\* and Error verdicts included.
C2_OneVerdictPerName ==
    Done =>
        /\ Len(results) = Len(rev_deps)
        /\ \A i \in 1..Len(rev_deps) : results[i].rev_dep.name = rev_deps[i]

\* C2 witness: run() has returned for a list that names one package twice,
\* with an Error verdict of a failed resolution and one of a closed channel.
C2_Witness ==
    /\ Done
    /\ Len(rev_deps) = 2
    /\ rev_deps[1] = rev_deps[2]
    /\ results[1].err = "NoCrateVersions"
    /\ results[2].err = "RecvError"

\* C3: when the resolution and every build of a unit returned without
\* error, the verdict of run_test_local follows from the success flags of
\* the builds alone: a failed baseline gives Broken (and there is no second
\* build), a successful baseline with a failed WIP build gives Regressed,
\* two successful builds give Pass.
C3_VerdictFromFlags ==
    \A t \in Units :
        (res[t] # NoResult /\ failure[t] = "none") =>
            LET b == builds[t]
            IN  /\ Len(b) \in {1, 2}
                /\ res[t].kind \in {"Broken", "Regressed", "Pass"}
                /\ res[t].kind = "Broken" <=> b[1].out = "failed"
                /\ res[t].kind = "Broken" => Len(b) = 1 /\ res[t].base = "failed"
                /\ res[t].kind = "Regressed" <=>
                       (Len(b) = 2 /\ b[1].out = "success" /\ b[2].out = "failed")
                /\ res[t].kind = "Pass" <=>
                       (Len(b) = 2 /\ b[1].out = "success" /\ b[2].out = "success")
                /\ Len(b) = 2 => res[t].base = b[1].out /\ res[t].next = b[2].out

\* C3 witness: run_test_local has returned in both units; the first built
\* under both overrides and passes, the second failed its baseline build
\* and is broken.
C3_Witness ==
    /\ pc[1] = "send" /\ failure[1] = "none"
    /\ res[1].kind = "Pass"
    /\ builds[1] = <<BuildCall("base", "success", TRUE), BuildCall("next", "success", TRUE)>>
    /\ pc[2] = "send" /\ failure[2] = "none"
    /\ res[2].kind = "Broken"
    /\ builds[2] = <<BuildCall("base", "failed", TRUE)>>

\* C4: a unit calls compile_with_custom_dep at most twice, first with the
\* base override; a call with the next override exists only once the call
\* with the base override has returned a successful build.
C4_BaselineBeforeWip ==
    \A t \in Units :
        LET b == builds[t]
        IN  /\ Len(b) <= 2
            /\ Len(b) >= 1 => b[1].krate = "base"
            /\ Len(b) = 2 => b[2].krate = "next" /\ b[1].out = "success"

\* C4 witness: run_test_local has returned in one unit after a failed
\* baseline build and no other build, in another after a baseline build
\* that returned an error, and neither started a WIP build.
C4_Witness ==
    /\ pc[1] = "send" /\ builds[1] = <<BuildCall("base", "failed", TRUE)>>
    /\ pc[2] = "send" /\ builds[2] = <<BuildCall("base", "error", TRUE)>>

\* C5, the state part: a unit in which a step failed returns the Error
\* verdict that carries that failure, for its own package; a unit returns
\* an Error verdict only for a failure of its own; the verdict a unit sent
\* is for its own package; and run() returns Ok with one result per
\* discovered package whatever failed.
C5_ErrorIsOwn ==
    /\ \A t \in Units :
          /\ failure[t] # "none" =>
                /\ pc[t] = "send"
                /\ res[t].kind = "Error"
                /\ res[t].err = failure[t]
                /\ res[t].rev_dep.name = job[t]
          /\ res[t].kind = "Error" => res[t].err = failure[t]
          /\ chan[t].st = "full" => chan[t].msg.rev_dep.name = job[t]
    /\ mpc # "failed" => run_err = "none"
    /\ Done => Len(results) = Len(rev_deps)

\* C5, the step part: a step of one unit leaves the position, the verdict,
\* the failure, the builds and the channel of every other unit as they are,
\* and a cache file changes only in a step of a unit of its own package.
C5_Frame ==
    /\ \A t \in Units, u \in Units :
          (pc'[t] # pc[t] /\ u # t) =>
              /\ pc'[u] = pc[u]
              /\ res'[u] = res[u]
              /\ failure'[u] = failure[u]
              /\ builds'[u] = builds[u]
              /\ chan'[u] = chan[u]
    /\ \A f \in CrateFiles :
          cache'[f] # cache[f] => \E t \in Units : pc'[t] # pc[t] /\ job[t] = f.name

\* C5: a failure inside one unit of work yields an Error verdict carrying
\* it for that package only, changes nothing of the other units, and run()
\* still returns Ok with the full vector.
C5_FailureStaysInUnit == []C5_ErrorIsOwn /\ [][C5_Frame]_vars

\* C5 witness: run() has returned for two different packages; the unit of
\* the first failed while extracting and has an Error verdict, the unit of
\* the second passed.
C5_Witness ==
    /\ Done
    /\ Len(results) = 2
    /\ rev_deps[1] # rev_deps[2]
    /\ faulted
    /\ results[1].kind = "Error" /\ results[1].err = "ProcessError"
    /\ results[2].kind = "Pass"

\* C6: when the worker of a unit panicked, its channel is closed, a recv
\* the aggregator is blocked in for that unit can return, the result pushed
\* for it is the RecvError verdict of its package, and run() goes on to
\* return one result per package.
C6_PanicIsRecvError ==
    /\ \A t \in Units :
          pc[t] = "panicked" =>
              /\ chan[t].st \in {"closed", "taken"}
              /\ t <= Len(results) => IsRecvError(results[t], rev_deps[t])
    /\ ( /\ mpc = "recv"
         /\ Len(results) < Len(result_rxs)
         /\ pc[result_rxs[RecvIndex].rx] = "panicked" ) => ENABLED MainRecv
    /\ (Done /\ \E t \in Units : pc[t] = "panicked") => Len(results) = Len(rev_deps)

\* C6 witness: the first unit panicked, the aggregator made the RecvError
\* verdict of it and went on to receive the verdict of the second unit.
C6_Witness ==
    /\ Done
    /\ pc[1] = "panicked"
    /\ results[1].err = "RecvError"
    /\ pc[2] = "sent"
    /\ results[2].kind = "Broken"

\* C7 as the claim states it: the notifications are in the order of
\* completion, so the line report_quick_result has just printed is that of
\* the unit that completed first among those not yet collected.
C7_CompletionOrder ==
    mpc = "report_cs" => notes[Len(notes)].unit = Head(waiting)

\* C7 amended: the notifications are in the order of discovery, the k-th
\* one being that of the k-th discovered package, printed once its unit
\* has ended, whatever the order in which the units completed.
C7_DiscoveryOrder ==
    \A k \in 1..Len(notes) :
        /\ notes[k].unit = k
        /\ notes[k].name = rev_deps[k]
        /\ Ended(k)

\* C7 witness: the notification of the first package has just been
\* printed, first, although the second unit completed before the first.
C7_Witness ==
    /\ mpc = "report_cs"
    /\ Len(notes) = 1
    /\ notes[1].unit = 1
    /\ waiting = <<2, 1>>

\* C8: the k-th notification carries the counter k and the number of
\* discovered packages as total, it is that of a unit that has completed,
\* no unit has two notifications, and when run() returns every discovered
\* package has its notification.
C8_OneNotePerPackage ==
    /\ \A k \in 1..Len(notes) :
          /\ notes[k].current_num = k
          /\ notes[k].total = Len(rev_deps)
          /\ Ended(notes[k].unit)
          /\ \A l \in 1..Len(notes) : l # k => notes[l].unit # notes[k].unit
    /\ Done =>
          /\ Len(notes) = Len(rev_deps)
          /\ \A t \in 1..Len(rev_deps) : NoteIndex(t) # 0

\* C8 witness: run() has returned after two notifications, numbered 1 of 2
\* and 2 of 2, the first one for a unit whose channel was closed.
C8_Witness ==
    /\ Done
    /\ Len(notes) = 2
    /\ notes[1].current_num = 1 /\ notes[1].total = 2
    /\ notes[2].current_num = 2 /\ notes[2].total = 2
    /\ pc[1] = "panicked"

\* C9: when a unit has called get_crate_handle a second time after a first
\* call that returned a handle, the second call made no download and did
\* not touch the file, and if it returned a handle it found the file and
\* the handle is to the same file; the two calls made one download if the
\* first did not find the file, and none if it did.
C9_SecondFetchFromCache ==
    \A t \in Units :
        LET f == fetches[t]
        IN  (Len(f) >= 2 /\ f[1].out = "ok") =>
                /\ f[2].out \in {"ok", "err"}
                /\ f[2].downloads = 0
                /\ ~f[2].touched
                /\ f[2].out = "ok" => f[2].hit /\ f[2].file = f[1].file
                /\ f[1].downloads + f[2].downloads = IF f[1].hit THEN 0 ELSE 1

\* C9 witness: a unit has downloaded the crate in its first call and got
\* the handle from the cache in its second.
C9_Witness ==
    \E t \in Units :
        /\ Len(fetches[t]) = 2
        /\ fetches[t][1] = FetchCall(rd[t], FALSE, 1, TRUE, "ok")
        /\ fetches[t][2] = FetchCall(rd[t], TRUE, 0, FALSE, "ok")

\* C10: a scratch directory is on disk only while the call of
\* compile_with_custom_dep that made it is between extraction and build,
\* so none is left of a unit whose call has returned or whose worker has
\* panicked, and none at all when run() returns.
C10_NoScratchLeft ==
    /\ \A d \in tmpdirs : pc[d[1]] \in {"unpack", "build"} /\ krate[d[1]] = d[2]
    /\ \A t \in Units :
          (pc[t] = "send" \/ Ended(t)) => ~\E d \in tmpdirs : d[1] = t
    /\ Done => tmpdirs = {}

\* C10 witness: the call of the first unit made a scratch directory and
\* returned an error from its baseline build, the worker of the second
\* unit panicked in its WIP build with its scratch directory on disk, and
\* no scratch directory is left.
C10_Witness ==
    /\ pc[1] = "send"
    /\ builds[1] = <<BuildCall("base", "error", TRUE)>>
    /\ pc[2] = "panicked"
    /\ tmpdirs = {}

\* C11: run() returns an Err exactly when get_config or get_rev_deps
\* failed, and then it is the error of that step, nothing was dispatched
\* (no receiver, no job queued or started, no channel), no resolution,
\* fetch or build was started, no notification was printed, and no step of
\* the program follows.
C11_EarlyFailureIsFatal ==
    /\ run_err # "none" <=> mpc = "failed"
    /\ mpc = "failed" =>
          /\ run_err \in (IF config.manifest_path = ""
                          THEN {"IoError", "TomlError", "ManifestName"}
                          ELSE {"CurlError", "HttpError", "FromUtf8Error", "JsonDecode"})
          /\ rev_deps = <<>> /\ result_rxs = <<>> /\ queue = <<>>
          /\ results = <<>> /\ notes = <<>>
          /\ \A t \in Units :
                /\ pc[t] = "none"
                /\ chan[t] = NoChannel
                /\ builds[t] = <<>>
                /\ fetches[t] = <<>>
          /\ cache = EmptyCache
          /\ tmpdirs = {}
          /\ ~faulted
          /\ ~ENABLED Next

\* C11 witness: get_config returned a Config, the discovery failed in
\* decoding the registry's answer, and run() has returned that error.
C11_Witness ==
    /\ mpc = "failed"
    /\ config.manifest_path # ""
    /\ run_err = "JsonDecode"

\* the lists that hold the elements of list in another order
Reorderings(list) ==
    LET n == Len(list)
        bij == {f \in [1..n -> 1..n] : \A i \in 1..n, j \in 1..n : i # j => f[i] # f[j]}
    IN  {[i \in 1..n |-> list[f[i]]] : f \in bij}

\* C12: when the registry's list holds a parsable version,
\* resolve_rev_dep_version returns Ok with the name and a version of the
\* list that parses and that no parsable version of the list exceeds in
\* semver's order, and it returns the same for the list in any other order.
C12_LatestIsMaximum ==
    ( /\ arg.fn = "resolve_rev_dep_version"
      /\ ret # NoCall
      /\ arg.reply.err = "none"
      /\ Parsable(arg.reply.versions) # {} ) =>
        /\ ret.ok
        /\ ret.err = "none"
        /\ ret.rev_dep.name = arg.name
        /\ ret.rev_dep.vers \in Parsable(arg.reply.versions)
        /\ \A w \in Parsable(arg.reply.versions) : ~VersionLess(ret.rev_dep.vers, w)
        /\ \A l \in Reorderings(arg.reply.versions) :
              ResolveRevDepVersion(arg.name, [err |-> "none", versions |-> l]) = ret

\* C12 witness: of a string that does not parse, a pre-release of 1.2.0 and
\* 1.2.0, in an order that is not sorted, the call has returned 1.2.0.
C12_Witness ==
    /\ arg.fn = "resolve_rev_dep_version"
    /\ arg.reply.err = "none"
    /\ arg.reply.versions = <<V(1, 2, 0), Bogus, VStr(TRUE, 1, 2, 0, <<1>>)>>
    /\ ret # NoCall
    /\ ret.ok
    /\ ret.rev_dep = RevDep(arg.name, V(1, 2, 0))

\* C13: when the registry has answered a unit with a list that holds no
\* string that parses (an empty list included), resolve_rev_dep_version
\* returns Err(NoCrateVersions), and run_test_local has returned the Error
\* verdict of it for the unit's package at 0.0.0 with no call of
\* compile_with_custom_dep or get_crate_handle made and no scratch
\* directory; and that is the verdict run() collects for the package.
C13_NoVersionsIsError ==
    /\ \A t \in Units :
          (answer[t].got /\ answer[t].err = "none" /\ Parsable(answer[t].versions) = {}) =>
              /\ ResolveRevDepVersion(job[t], [err |-> "none", versions |-> answer[t].versions])
                     = Resolved(FALSE, RevDep(job[t], ZeroVersion), "NoCrateVersions")
              /\ pc[t] = "send"
              /\ res[t] = ErrorResult(RevDep(job[t], ZeroVersion), "NoCrateVersions", t)
              /\ builds[t] = <<>>
              /\ fetches[t] = <<>>
              /\ ~\E d \in tmpdirs : d[1] = t
    /\ \A t \in Units :
          (chan[t].st = "full" /\ chan[t].msg.err = "NoCrateVersions") =>
              chan[t].msg = ErrorResult(RevDep(job[t], ZeroVersion), "NoCrateVersions", t)
    /\ \A i \in 1..Len(results) :
          results[i].err = "NoCrateVersions" =>
              results[i] = ErrorResult(RevDep(rev_deps[i], ZeroVersion), "NoCrateVersions", i)

\* C13 witness: the registry has answered the first unit with a list of
\* one string that does not parse and the second with an empty list, and
\* run_test_local has returned the NoCrateVersions verdict in both.
C13_Witness ==
    /\ pc[1] = "send" /\ answer[1].got /\ answer[1].versions = <<Bogus>>
    /\ res[1].err = "NoCrateVersions"
    /\ pc[2] = "send" /\ answer[2].got /\ answer[2].versions = <<>>
    /\ answer[2].err = "none"
    /\ res[2].err = "NoCrateVersions"

\* C14: http_get_bytes makes one request or two.  A first response of 200
\* returns its body after one request.  A first response of 302 with a
\* location is followed by one request of that location, and the call
\* returns the body of the second response if its code is 200, an HttpError
\* for any other code (a second 302 is not followed), and fails if the
\* second request fails.  A 302 without a location and any other code but
\* 200 return an HttpError after one request.
C14_OneRedirectFollowed ==
    (arg.fn = "http_get_bytes" /\ ret # NoCall) =>
        LET f == arg.first
            s == arg.second
            located == f.has_location /\ f.location # <<>>
        IN  /\ Len(ret.urls) \in {1, 2}
            /\ ret.urls[1] = arg.url
            /\ (f.ok /\ f.code = 200) =>
                  ret = HttpResult(TRUE, f.body, "none", <<arg.url>>)
            /\ (f.ok /\ f.code = 302 /\ located) =>
                  /\ ret.urls = <<arg.url, f.location[1]>>
                  /\ ret.ok <=> (s.ok /\ s.code = 200)
                  /\ ret.ok => ret.body = s.body
                  /\ (s.ok /\ s.code # 200) => ret.err = "HttpError"
                  /\ ~s.ok => ~ret.ok
            /\ (f.ok /\ f.code = 302 /\ ~located) =>
                  ret = HttpResult(FALSE, "", "HttpError", <<arg.url>>)
            /\ (f.ok /\ f.code \notin {200, 302}) =>
                  ret = HttpResult(FALSE, "", "HttpError", <<arg.url>>)

\* C14 witness: the first response was a 302 with a location, the response
\* to the request of that location was a 302 with a location again, and
\* the call has returned an HttpError after two requests.
C14_Witness ==
    /\ arg.fn = "http_get_bytes"
    /\ arg.first = Exec(TRUE, 302, TRUE, <<"moved">>, "first")
    /\ arg.second = Exec(TRUE, 302, TRUE, <<"again">>, "second")
    /\ ret = HttpResult(FALSE, "", "HttpError", <<"url", "moved">>)

\* C15, the state part: the units that have started and not ended are at
\* most as many as the threads of the pool, which are num_cpus::get(); the
\* jobs not started wait in the queue in dispatch order.
C15_AtMostPoolRunning ==
    /\ mpc \notin {"config", "discover", "failed"} => pool \in Cpus
    /\ Cardinality(Running) <= pool
    /\ \A t \in Units : pc[t] = "queued" <=> \E k \in 1..Len(queue) : queue[k] = t
    /\ \A k \in 1..Len(queue), l \in 1..Len(queue) : k < l => queue[k] < queue[l]

\* C15, the step part: a unit that has started goes on or ends, and is
\* never put back or started again; a unit that has ended stays so; the
\* pool keeps its size.
C15_StartToFinish ==
    /\ \A t \in Units :
          /\ pc[t] \in RunningPcs => pc'[t] \in RunningPcs \cup {"sent", "panicked"}
          /\ Ended(t) => pc'[t] = pc[t]
    /\ pool # 0 => pool' = pool

\* C15: at every moment at most pool-size units are executing, however
\* many were dispatched, and a unit runs from its start to its end.
C15_PoolBound == []C15_AtMostPoolRunning /\ [][C15_StartToFinish]_vars

\* C15 witness: two packages were discovered and dispatched to a pool of
\* one thread; the first unit is building while the second waits in the
\* queue.
C15_Witness ==
    /\ pool = 1
    /\ Len(rev_deps) = 2
    /\ mpc = "recv"
    /\ pc[1] = "build"
    /\ pc[2] = "queued"
    /\ queue = <<2>>

\* the units that are inside status_lock
InStatusLock == {t \in Units : pc[t] = "status_cs"}

\* C16: at most one thread is inside status_lock, the aggregator in
\* report_quick_result or one worker in status(); the lock is held exactly
\* while a thread is inside, by that thread; and it is free again when the
\* thread has left, by return or by unwinding.
C16_OneThreadInStatusLock ==
    /\ Cardinality(InStatusLock) + (IF mpc = "report_cs" THEN 1 ELSE 0) <= 1
    /\ lock = "main" <=> mpc = "report_cs"
    /\ lock = "worker" <=> InStatusLock # {}
    /\ lock = "free" <=> (mpc # "report_cs" /\ InStatusLock = {})
    /\ Done => lock = "free"

\* C16 witness: with a manifest path that makes no build panic, the worker
\* of the second unit has left status() by a panic of println!; the lock
\* was free again, and the aggregator holds it for the line of the first
\* unit.
C16_Witness ==
    /\ config.manifest_path = "./Cargo.toml"
    /\ pc[2] = "panicked"
    /\ faulted
    /\ mpc = "report_cs"
    /\ lock = "main"
    /\ cur.unit = 1

(* ---- C17 ---- *)

\* run() has returned Ok(results) with one result for every reverse
\* dependency, and the job of every one of them has ended
C17_Returned ==
    /\ Done
    /\ Len(results) = Len(rev_deps)
    /\ \A t \in 1..Len(rev_deps) : Ended(t)

\* C17: when every blocking call returns and the threads are scheduled
\* fairly, every unit of work that run_test has handed to the pool ends (its
\* closure sends its verdict, or unwinds from a panic), and run(), once it
\* dispatches, returns the full vector of results: the aggregator, the
\* workers and the console lock never block each other for ever, and no
\* dispatched unit is left in the queue.
C17_EveryUnitCompletes ==
    /\ \A t \in Units : (pc[t] = "queued") ~> Ended(t)
    /\ (mpc = "dispatch") ~> C17_Returned

\* run() has returned the results of MaxDeps units which a pool of one
\* thread ran one after the other, each of them to its send
C17_Witness ==
    /\ C17_Returned
    /\ Len(rev_deps) = MaxDeps
    /\ pool = 1
    /\ \A t \in 1..MaxDeps : pc[t] = "sent"

(* ---- C18 ---- *)

\* the units that hold a CrateHandle: get_crate_handle has returned Ok and
\* unpack_source_to has not yet run tar on the file
HoldsHandle == {t \in Units : pc[t] \in {"scratch", "unpack"}}

\* C18: under every interleaving of the workers, the cache file of a handle
\* that a worker holds, and extracts, has the complete bytes of the
\* download: it is not a file that another worker has created, or truncated,
\* and not yet written. (Stated for the runs in which no call has failed;
\* what a failed get_crate_handle leaves is C20.)
C18_HandleToCompleteFile ==
    ~faulted => \A t \in HoldsHandle : cache[rd[t]] = "complete"

(* ---- C19 ---- *)

\* the number of receivers the aggregator has called recv on
Received == Len(results) + (IF mpc \in {"report", "report_cs"} THEN 1 ELSE 0)

\* C19: result_tx.send(res) never fails. From the moment run_test makes the
\* channel of a unit until the closure sends, the Receiver is alive and the
\* channel is empty, so the send finds its Receiver; a closure that has sent
\* left its one verdict in the channel, where it stays until the aggregator
\* receives it; and the aggregator has dropped only the receivers it has
\* received from, each once, in the order of result_rxs.
C19_SendNeverFails ==
    /\ \A t \in Units :
         pc[t] \in {"queued"} \cup RunningPcs => chan[t].st = "empty"
    /\ \A t \in Units :
         pc[t] = "sent" =>
            \/ chan[t].st = "full" /\ t > Received
            \/ chan[t].st = "taken" /\ t <= Received
    /\ \A t \in Units : chan[t].st = "taken" <=> (t <= Received)

\* the second unit has sent its verdict while the aggregator still waits
\* for the first, which is about to send: the verdict of the second stays
\* in its channel, whose Receiver the aggregator keeps
C19_Witness ==
    /\ mpc = "recv"
    /\ Len(results) = 0
    /\ pc[1] = "send"
    /\ pc[2] = "sent"
    /\ chan[2].st = "full"
    /\ chan[1].st = "empty"

(* ---- C20 ---- *)

\* unit t is the only unit of work of the run for its package
OnlyUnitOfItsName(t) ==
    \A u \in 1..Len(rev_deps) : u # t => rev_deps[u] # rev_deps[t]

\* the last call of get_crate_handle by unit t did not find the cache file
\* and returned an error of the download, of File::create or of the write
FetchFailed(t) ==
    /\ pc[t] = "send"
    /\ fetches[t] # <<>>
    /\ fetches[t][Len(fetches[t])].out = "err"
    /\ fetches[t][Len(fetches[t])].downloads = 1

\* C20: when a call of get_crate_handle has returned an error of the
\* download, of the creation of the file or of the write, the cache has no
\* file for that (name, version), so a later call does not find one and
\* downloads again. (Stated for a unit that is alone with its package, so
\* that no other worker wrote the file.)
C20_FailedFetchLeavesNoEntry ==
    \A t \in Units :
        (FetchFailed(t) /\ OnlyUnitOfItsName(t)) =>
            cache[fetches[t][Len(fetches[t])].file] = "absent"

====
